---- MODULE Spec2Model ----
(***************************************************************************)
(* ClassificationModelWrapper.train (src/wrapper.py): the epoch driver,    *)
(* the train step, the test step with its patience / checkpoint policy,    *)
(* and the history that train() returns; load_model and init_optim, the    *)
(* batch loops of _train_step and _test_step, and repeated train() calls.  *)
(*                                                                         *)
(* Losses and accuracies are floats in the program; here they are integers *)
(* (tenths), which keeps the only operations the driver applies to them,   *)
(* the comparisons < and >, exact.                                         *)
(***************************************************************************)
EXTENDS Integers, Sequences, FiniteSets

\* ---------------------------------------------------------------- bounds
MaxEpochs == 6
MaxCadence == 2
MaxPatience == 2
\* Most evaluation epochs a configuration may schedule.
MaxEvals == 5
\* len(self.train_loader) and len(self.test_loader): batches per pass.
TrainBatches == 2
TestBatches == 2
\* Most epochs of a configuration explored batch by batch.
StepEpochs == 3
\* Most train() calls made on one session.
MaxCalls == 2

\* Mean test losses an evaluation pass can produce, in tenths: one below the
\* sentinel 0 and four above it.
TestLosses == {-1, 8, 9, 10, 11}
\* Mean test accuracies an evaluation pass can produce, in tenths.
TestAccs == {7}
\* (mean loss, mean accuracy) pairs a train pass can produce, in tenths.
TrainMetrics == {<<5, 6>>}

\* PATIENCE=None (the default of train()) is the empty tuple, a limit n is <<n>>.
None == <<>>
Limit(P) == P[1]

VARIABLES
    pc,                 \* position of the caller / train()
    EPOCHS,             \* argument of train()
    TEST_EVERY,         \* argument of train()
    PATIENCE,           \* self.PATIENCE
    patience_curr,      \* self.patience_curr
    patience_ended,     \* self.patience_ended
    epoch,              \* self.epoch
    it,                 \* values range(EPOCHS) has yielded so far
    train_loss,         \* local of train()
    train_acc,          \* local of train()
    test_loss,          \* local of train()
    test_loss_previous, \* local of train(), argument of _test_step
    test_acc,           \* local of train()
    results,            \* local of train()
    history,            \* self.history
    checkpoints,        \* files torch.save has written, in order
    trained,            \* epochs in which _train_step was called, in order
    evaluated,          \* epochs in which _test_step was called, in order
    mode,               \* self.model.training: "train" or "eval"
    params,             \* optimizer steps applied to the model's parameters
    ops,                \* <<operation, mode>> of the current pass, in order
    batch,              \* batches the loader has yielded in the current pass
    stop_msgs,          \* 'Early stopping...' lines printed so far
    calls,              \* train() calls that have ended
    model,              \* self.model: the architecture loaded
    optimizer,          \* self.optimizer: the optimizer kind
    last_setup,         \* the last setup call: <<method, selector, outcome>>
    prior_writes        \* checkpoint writes made before the current train() call

vars == <<pc, EPOCHS, TEST_EVERY, PATIENCE, patience_curr, patience_ended,
          epoch, it, train_loss, train_acc, test_loss, test_loss_previous,
          test_acc, results, history, checkpoints, trained, evaluated,
          mode, params, ops, batch, stop_msgs, calls, model, optimizer,
          last_setup, prior_writes>>

\* The state of a pass over a loader, and what only setup and the caller change.
passVars == <<mode, params, ops, batch>>
sessionVars == <<calls, model, optimizer, last_setup>>

\* Value of an attribute or local that has not been assigned yet.
Unset == <<>>
\* The same for the attributes that hold a name: model, optimizer, mode.
Missing == "missing"

\* After __init__ (lines 65-71): no attribute of a run or of setup exists yet.
Constructed ==
    /\ pc = "idle"
    /\ EPOCHS = Unset
    /\ TEST_EVERY = Unset
    /\ PATIENCE = Unset
    /\ patience_curr = Unset
    /\ patience_ended = Unset
    /\ epoch = Unset
    /\ it = 0
    /\ train_loss = Unset
    /\ train_acc = Unset
    /\ test_loss = Unset
    /\ test_loss_previous = Unset
    /\ test_acc = Unset
    /\ results = <<>>
    /\ history = Unset
    /\ checkpoints = <<>>
    /\ trained = <<>>
    /\ evaluated = <<>>
    /\ ops = <<>>
    /\ batch = 0
    /\ stop_msgs = 0
    /\ calls = 0
    /\ last_setup = Unset
    /\ prior_writes = 0
    /\ model = Missing
    /\ optimizer = Missing
    /\ mode = Missing
    /\ params = 0

\* A session ready for train(): load_model and init_optim have succeeded
\* (lines 86-113, 144-149). A freshly built module is in training mode.
Init ==
    /\ pc = "idle"
    /\ EPOCHS = Unset
    /\ TEST_EVERY = Unset
    /\ PATIENCE = Unset
    /\ patience_curr = Unset
    /\ patience_ended = Unset
    /\ epoch = Unset
    /\ it = 0
    /\ train_loss = Unset
    /\ train_acc = Unset
    /\ test_loss = Unset
    /\ test_loss_previous = Unset
    /\ test_acc = Unset
    /\ results = <<>>
    /\ history = Unset
    /\ checkpoints = <<>>
    /\ trained = <<>>
    /\ evaluated = <<>>
    /\ ops = <<>>
    /\ batch = 0
    /\ stop_msgs = 0
    /\ calls = 0
    /\ last_setup = <<"init_optim", "SGD", "ok">>
    /\ prior_writes = 0
    /\ model = "efficientnet_b0"
    /\ optimizer = "SGD"
    /\ mode = "train"
    /\ params = 0

\* Train with results kept from the call before instead of results = [].
Train_KeepsResults(E, T, P) ==
    /\ pc = "idle"
    /\ EPOCHS' = E
    /\ TEST_EVERY' = T
    /\ results' = results
    /\ PATIENCE' = P
    /\ patience_curr' = 0
    /\ patience_ended' = FALSE
    /\ test_loss' = 0
    /\ it' = 0
    /\ trained' = <<>>
    /\ evaluated' = <<>>
    /\ pc' = "for"
    /\ UNCHANGED <<epoch, train_loss, train_acc, test_loss_previous, test_acc,
                   history, checkpoints>>
    /\ prior_writes' = Len(checkpoints)
    /\ UNCHANGED <<passVars, stop_msgs, sessionVars>>

\* train(EPOCHS, TEST_EVERY, PATIENCE): lines 239-244, up to the for loop.
Train(E, T, P) ==
    /\ pc = "idle"
    /\ EPOCHS' = E
    /\ TEST_EVERY' = T
    /\ results' = <<>>
    /\ PATIENCE' = P
    /\ patience_curr' = 0
    /\ patience_ended' = FALSE
    /\ test_loss' = 0
    /\ it' = 0
    /\ trained' = <<>>
    /\ evaluated' = <<>>
    /\ pc' = "for"
    /\ UNCHANGED <<epoch, train_loss, train_acc, test_loss_previous, test_acc,
                   history, checkpoints>>
    /\ prior_writes' = Len(checkpoints)
    /\ UNCHANGED <<passVars, stop_msgs, sessionVars>>

\* ForNext with the patience_ended check of line 249 left out.
ForNext_IgnoresFlag ==
    /\ pc = "for"
    /\ it < EPOCHS
    /\ epoch' = it
    /\ it' = it + 1
    /\ pc' = "train_step"
    /\ UNCHANGED <<EPOCHS, TEST_EVERY, PATIENCE, patience_curr, patience_ended,
                   train_loss, train_acc, test_loss, test_loss_previous,
                   test_acc, results, history, checkpoints, trained, evaluated>>
    /\ UNCHANGED <<passVars, stop_msgs, sessionVars, prior_writes>>

\* for epoch in range(EPOCHS): the next epoch starts (lines 246-249, flag false).
ForNext ==
    /\ pc = "for"
    /\ it < EPOCHS
    /\ epoch' = it
    /\ it' = it + 1
    /\ ~patience_ended
    /\ pc' = "train_step"
    /\ UNCHANGED <<EPOCHS, TEST_EVERY, PATIENCE, patience_curr, patience_ended,
                   train_loss, train_acc, test_loss, test_loss_previous,
                   test_acc, results, history, checkpoints, trained, evaluated>>
    /\ UNCHANGED <<passVars, stop_msgs, sessionVars, prior_writes>>

\* EarlyStop without the print of line 250.
EarlyStop_Silent ==
    /\ pc = "for"
    /\ it < EPOCHS
    /\ epoch' = it
    /\ it' = it + 1
    /\ patience_ended
    /\ pc' = "return"
    /\ UNCHANGED <<EPOCHS, TEST_EVERY, PATIENCE, patience_curr, patience_ended,
                   train_loss, train_acc, test_loss, test_loss_previous,
                   test_acc, results, history, checkpoints, trained, evaluated>>
    /\ UNCHANGED <<passVars, stop_msgs, sessionVars, prior_writes>>

\* The early-stopping break at the top of an epoch (lines 246-251).
EarlyStop ==
    /\ pc = "for"
    /\ it < EPOCHS
    /\ epoch' = it
    /\ it' = it + 1
    /\ patience_ended
    /\ pc' = "return"
    /\ UNCHANGED <<EPOCHS, TEST_EVERY, PATIENCE, patience_curr, patience_ended,
                   train_loss, train_acc, test_loss, test_loss_previous,
                   test_acc, results, history, checkpoints, trained, evaluated>>
    /\ stop_msgs' = stop_msgs + 1
    /\ UNCHANGED <<passVars, sessionVars, prior_writes>>

\* range(EPOCHS) is exhausted (line 246).
ForExhausted ==
    /\ pc = "for"
    /\ it = EPOCHS
    /\ pc' = "return"
    /\ UNCHANGED <<EPOCHS, TEST_EVERY, PATIENCE, patience_curr, patience_ended,
                   epoch, it, train_loss, train_acc, test_loss,
                   test_loss_previous, test_acc, results, history, checkpoints,
                   trained, evaluated>>
    /\ UNCHANGED <<passVars, stop_msgs, sessionVars, prior_writes>>

\* _train_step can run: self.model and self.optimizer exist.
Ready == model # Missing /\ optimizer # Missing

\* What one batch of _train_step does, in order (lines 166-176), and what one
\* batch of _test_step does (lines 201-207); each with the model's mode.
TrainBatchOps ==
    << <<"forward", "train">>, <<"loss", "train">>, <<"zero_grad", "train">>,
       <<"backward", "train">>, <<"step", "train">> >>
TestBatchOps == << <<"forward", "eval">>, <<"loss", "eval">> >>
RECURSIVE TrainPassOps(_)
TrainPassOps(n) == IF n = 0 THEN <<>> ELSE TrainPassOps(n - 1) \o TrainBatchOps
RECURSIVE TestPassOps(_)
TestPassOps(n) == IF n = 0 THEN <<>> ELSE TestPassOps(n - 1) \o TestBatchOps

\* train_loss, train_acc = self._train_step() (line 253): the whole pass.
TrainStep(m) ==
    /\ pc = "train_step"
    /\ Ready
    /\ train_loss' = m[1]
    /\ train_acc' = m[2]
    /\ trained' = Append(trained, epoch)
    /\ pc' = "cadence"
    /\ UNCHANGED <<EPOCHS, TEST_EVERY, PATIENCE, patience_curr, patience_ended,
                   epoch, it, test_loss, test_loss_previous, test_acc, results,
                   history, checkpoints, evaluated>>
    /\ mode' = "train"
    /\ ops' = TrainPassOps(TrainBatches)
    /\ batch' = TrainBatches
    /\ params' = params + TrainBatches
    /\ UNCHANGED <<stop_msgs, sessionVars, prior_writes>>

\* IsTestEpoch counting epochs from 1.
IsTestEpoch_OffByOne(e, T) == (e + 1) % T = 0

\* if self.epoch % TEST_EVERY == 0 (line 255).
IsTestEpoch(e, T) == e % T = 0

\* Policy without the PATIENCE is not None test of line 216.
Policy_IgnoresNone(P, e, prev, loss, acc, curr, ended) ==
    IF prev < loss /\ e # 0
    THEN <<curr + 1, (ended \/ (P # None /\ curr + 1 = Limit(P))), <<>> >>
    ELSE IF prev > loss
         THEN <<0, ended, << <<e, loss, acc>> >> >>
         ELSE <<curr, ended, <<>> >>

\* Policy with line 217 comparing with <=: a tie counts as an increase.
Policy_TieIncrements(P, e, prev, loss, acc, curr, ended) ==
    IF P # None
    THEN IF prev <= loss /\ e # 0
         THEN <<curr + 1, (ended \/ curr + 1 = Limit(P)), <<>> >>
         ELSE IF prev > loss
              THEN <<0, ended, << <<e, loss, acc>> >> >>
              ELSE <<curr, ended, <<>> >>
    ELSE <<curr, ended, <<>> >>

\* Policy with line 223 comparing with >=: a tie counts as an improvement.
Policy_CheckpointOnTie(P, e, prev, loss, acc, curr, ended) ==
    IF P # None
    THEN IF prev < loss /\ e # 0
         THEN <<curr + 1, (ended \/ curr + 1 = Limit(P)), <<>> >>
         ELSE IF prev >= loss
              THEN <<0, ended, << <<e, loss, acc>> >> >>
              ELSE <<curr, ended, <<>> >>
    ELSE <<curr, ended, <<>> >>

\* Policy without the reset of line 224.
Policy_NoReset(P, e, prev, loss, acc, curr, ended) ==
    IF P # None
    THEN IF prev < loss /\ e # 0
         THEN <<curr + 1, (ended \/ curr + 1 = Limit(P)), <<>> >>
         ELSE IF prev > loss
              THEN <<curr, ended, << <<e, loss, acc>> >> >>
              ELSE <<curr, ended, <<>> >>
    ELSE <<curr, ended, <<>> >>

\* Policy with the comparisons of lines 217 and 223 exchanged.
Policy_Reversed(P, e, prev, loss, acc, curr, ended) ==
    IF P # None
    THEN IF prev > loss /\ e # 0
         THEN <<curr + 1, (ended \/ curr + 1 = Limit(P)), <<>> >>
         ELSE IF prev < loss
              THEN <<0, ended, << <<e, loss, acc>> >> >>
              ELSE <<curr, ended, <<>> >>
    ELSE <<curr, ended, <<>> >>

\* The patience / checkpoint policy of _test_step (lines 216-225): the new
\* <<patience_curr, patience_ended, files written>>.
Policy(P, e, prev, loss, acc, curr, ended) ==
    IF P # None
    THEN IF prev < loss /\ e # 0
         THEN <<curr + 1, (ended \/ curr + 1 = Limit(P)), <<>> >>
         ELSE IF prev > loss
              THEN <<0, ended, << <<e, loss, acc>> >> >>
              ELSE <<curr, ended, <<>> >>
    ELSE <<curr, ended, <<>> >>

\* The lowest test loss recorded so far, the sentinel 0 when there is none.
RECURSIVE BestLoss(_)
BestLoss(h) ==
    IF h = <<>> THEN 0
    ELSE IF Len(h) = 1 THEN h[1][4]
         ELSE LET b == BestLoss(SubSeq(h, 1, Len(h) - 1))
              IN  IF h[Len(h)][4] < b THEN h[Len(h)][4] ELSE b

\* TestStep comparing with the best loss so far instead of the latest one.
TestStep_AgainstBest(loss, acc) ==
    /\ pc = "cadence"
    /\ IsTestEpoch(epoch, TEST_EVERY)
    /\ test_loss_previous' = BestLoss(results)
    /\ LET p == Policy(PATIENCE, epoch, BestLoss(results), loss, acc,
                       patience_curr, patience_ended)
       IN  /\ patience_curr' = p[1]
           /\ patience_ended' = p[2]
           /\ checkpoints' = checkpoints \o p[3]
    /\ test_loss' = loss
    /\ test_acc' = acc
    /\ evaluated' = Append(evaluated, epoch)
    /\ pc' = "record"
    /\ UNCHANGED <<EPOCHS, TEST_EVERY, PATIENCE, epoch, it, train_loss,
                   train_acc, results, history, trained>>
    /\ mode' = "eval"
    /\ ops' = TestPassOps(TestBatches)
    /\ batch' = TestBatches
    /\ UNCHANGED <<params, stop_msgs, sessionVars, prior_writes>>

\* test_loss_previous = test_loss; test_loss, test_acc = self._test_step(...)
\* (lines 256-257, with _test_step, lines 188-227).
TestStep(loss, acc) ==
    /\ pc = "cadence"
    /\ IsTestEpoch(epoch, TEST_EVERY)
    /\ test_loss_previous' = test_loss
    /\ LET p == Policy(PATIENCE, epoch, test_loss, loss, acc,
                       patience_curr, patience_ended)
       IN  /\ patience_curr' = p[1]
           /\ patience_ended' = p[2]
           /\ checkpoints' = checkpoints \o p[3]
    /\ test_loss' = loss
    /\ test_acc' = acc
    /\ evaluated' = Append(evaluated, epoch)
    /\ pc' = "record"
    /\ UNCHANGED <<EPOCHS, TEST_EVERY, PATIENCE, epoch, it, train_loss,
                   train_acc, results, history, trained>>
    /\ mode' = "eval"
    /\ ops' = TestPassOps(TestBatches)
    /\ batch' = TestBatches
    /\ UNCHANGED <<params, stop_msgs, sessionVars, prior_writes>>

\* SkipTest with the append of line 260 outside the if of line 255.
SkipTest_Records ==
    /\ pc = "cadence"
    /\ ~IsTestEpoch(epoch, TEST_EVERY)
    /\ results' = Append(results,
                         <<epoch, train_loss, train_acc, test_loss, test_acc>>)
    /\ pc' = "for"
    /\ UNCHANGED <<EPOCHS, TEST_EVERY, PATIENCE, patience_curr, patience_ended,
                   epoch, it, train_loss, train_acc, test_loss,
                   test_loss_previous, test_acc, history, checkpoints, trained,
                   evaluated>>
    /\ UNCHANGED <<passVars, stop_msgs, sessionVars, prior_writes>>

\* The epoch is not an evaluation epoch (line 255 false, line 261).
SkipTest ==
    /\ pc = "cadence"
    /\ ~IsTestEpoch(epoch, TEST_EVERY)
    /\ pc' = "for"
    /\ UNCHANGED <<EPOCHS, TEST_EVERY, PATIENCE, patience_curr, patience_ended,
                   epoch, it, train_loss, train_acc, test_loss,
                   test_loss_previous, test_acc, results, history, checkpoints,
                   trained, evaluated>>
    /\ UNCHANGED <<passVars, stop_msgs, sessionVars, prior_writes>>

\* Record with the break taken as soon as the flag is set, before the append.
Record_BreaksWhenStopped ==
    /\ pc = "record"
    /\ IF patience_ended
       THEN /\ results' = results
            /\ pc' = "return"
       ELSE /\ results' = Append(results,
                                 <<epoch, train_loss, train_acc, test_loss, test_acc>>)
            /\ pc' = "for"
    /\ UNCHANGED <<EPOCHS, TEST_EVERY, PATIENCE, patience_curr, patience_ended,
                   epoch, it, train_loss, train_acc, test_loss,
                   test_loss_previous, test_acc, history, checkpoints, trained,
                   evaluated>>
    /\ UNCHANGED <<passVars, stop_msgs, sessionVars, prior_writes>>

\* results.append([epoch, train_loss, train_acc, test_loss, test_acc])
\* (lines 259-261).
Record ==
    /\ pc = "record"
    /\ results' = Append(results,
                         <<epoch, train_loss, train_acc, test_loss, test_acc>>)
    /\ pc' = "for"
    /\ UNCHANGED <<EPOCHS, TEST_EVERY, PATIENCE, patience_curr, patience_ended,
                   epoch, it, train_loss, train_acc, test_loss,
                   test_loss_previous, test_acc, history, checkpoints, trained,
                   evaluated>>
    /\ UNCHANGED <<passVars, stop_msgs, sessionVars, prior_writes>>

\* self.history = pd.DataFrame(results, ...); return self.history (263-264).
Return ==
    /\ pc = "return"
    /\ history' = results
    /\ pc' = "done"
    /\ UNCHANGED <<EPOCHS, TEST_EVERY, PATIENCE, patience_curr, patience_ended,
                   epoch, it, train_loss, train_acc, test_loss,
                   test_loss_previous, test_acc, results, checkpoints, trained,
                   evaluated>>
    /\ UNCHANGED <<passVars, stop_msgs, sessionVars, prior_writes>>

\* The configurations explored: epoch counts, cadences and patience limits
\* within the bounds.
Patiences == {None} \cup {<<n>> : n \in 0..MaxPatience}
ScheduledEvals(E, T) == (E + T - 1) \div T
Configs ==
    {c \in (0..MaxEpochs) \X (1..MaxCadence) \X Patiences :
        ScheduledEvals(c[1], c[2]) <= MaxEvals}

Next ==
    \/ \E c \in Configs : Train(c[1], c[2], c[3])
    \/ ForNext
    \/ EarlyStop
    \/ ForExhausted
    \/ \E m \in TrainMetrics : TrainStep(m)
    \/ \E loss \in TestLosses, acc \in TestAccs : TestStep(loss, acc)
    \/ SkipTest
    \/ Record
    \/ Return

Spec == Init /\ [][Next]_vars

\* ------------------------------------------------- the passes, batch by batch
driverVars == <<EPOCHS, TEST_EVERY, PATIENCE, epoch, it, results, history>>
policyVars == <<patience_curr, patience_ended, checkpoints>>
metricVars == <<train_loss, train_acc, test_loss, test_loss_previous, test_acc>>

\* One operation of a batch: it is logged with the mode the model is in.
BatchOp(from, to, op) ==
    /\ pc = from
    /\ pc' = to
    /\ ops' = Append(ops, <<op, mode>>)
    /\ UNCHANGED <<driverVars, policyVars, metricVars, trained, evaluated,
                   mode, batch, stop_msgs, sessionVars, prior_writes>>

\* TrainBegin without self.model.train() (line 161).
TrainBegin_KeepsMode ==
    /\ pc = "train_step"
    /\ Ready
    /\ ops' = <<>>
    /\ batch' = 0
    /\ trained' = Append(trained, epoch)
    /\ pc' = "t_iter"
    /\ UNCHANGED <<driverVars, policyVars, metricVars, evaluated, mode, params,
                   stop_msgs, sessionVars, prior_writes>>

\* _train_step is entered: sums zeroed, self.model.train() (lines 159-161).
TrainBegin ==
    /\ pc = "train_step"
    /\ Ready
    /\ mode' = "train"
    /\ ops' = <<>>
    /\ batch' = 0
    /\ trained' = Append(trained, epoch)
    /\ pc' = "t_iter"
    /\ UNCHANGED <<driverVars, policyVars, metricVars, evaluated, params,
                   stop_msgs, sessionVars, prior_writes>>

\* for train_X, train_y in self.train_loader: the next batch (lines 162-164).
TrainNextBatch ==
    /\ pc = "t_iter"
    /\ batch < TrainBatches
    /\ batch' = batch + 1
    /\ pc' = "t_forward"
    /\ UNCHANGED <<driverVars, policyVars, metricVars, trained, evaluated,
                   mode, params, ops, stop_msgs, sessionVars, prior_writes>>

\* logits = self.model(train_X) and the predictions (lines 166-167).
TrainForward == BatchOp("t_forward", "t_loss", "forward") /\ params' = params

\* The batch loss and accuracy, added to the sums (lines 169-172).
TrainLoss == BatchOp("t_loss", "t_zero", "loss") /\ params' = params

\* self.optimizer.zero_grad() (line 174).
TrainZeroGrad == BatchOp("t_zero", "t_backward", "zero_grad") /\ params' = params

\* train_loss_batch.backward() (line 175).
TrainBackward == BatchOp("t_backward", "t_opt", "backward") /\ params' = params

\* TrainOptStep put off: the batch ends without the optimizer step.
TrainOptStep_Deferred ==
    /\ pc = "t_opt"
    /\ pc' = "t_iter"
    /\ UNCHANGED <<driverVars, policyVars, metricVars, trained, evaluated,
                   passVars, stop_msgs, sessionVars, prior_writes>>

\* self.optimizer.step(), then the batch is released (lines 176-180).
TrainOptStep == BatchOp("t_opt", "t_iter", "step") /\ params' = params + 1

\* The loader is exhausted: the means are returned to train() (lines 182-185,
\* 253).
TrainEnd(m) ==
    /\ pc = "t_iter"
    /\ batch = TrainBatches
    /\ train_loss' = m[1]
    /\ train_acc' = m[2]
    /\ pc' = "cadence"
    /\ UNCHANGED <<driverVars, policyVars, test_loss, test_loss_previous,
                   test_acc, trained, evaluated, passVars, stop_msgs,
                   sessionVars, prior_writes>>

\* test_loss_previous = test_loss; _test_step is entered: sums zeroed,
\* inference mode, self.model.eval() (lines 256-257, 193-196).
TestBegin ==
    /\ pc = "cadence"
    /\ IsTestEpoch(epoch, TEST_EVERY)
    /\ test_loss_previous' = test_loss
    /\ mode' = "eval"
    /\ ops' = <<>>
    /\ batch' = 0
    /\ evaluated' = Append(evaluated, epoch)
    /\ pc' = "e_iter"
    /\ UNCHANGED <<driverVars, policyVars, train_loss, train_acc, test_loss,
                   test_acc, trained, params, stop_msgs, sessionVars, prior_writes>>

\* for test_X, test_y in self.test_loader: the next batch (lines 197-199).
TestNextBatch ==
    /\ pc = "e_iter"
    /\ batch < TestBatches
    /\ batch' = batch + 1
    /\ pc' = "e_forward"
    /\ UNCHANGED <<driverVars, policyVars, metricVars, trained, evaluated,
                   mode, params, ops, stop_msgs, sessionVars, prior_writes>>

\* logits = self.model(test_X) and the predictions (lines 201-202).
TestForward == BatchOp("e_forward", "e_loss", "forward") /\ params' = params

\* TestLoss followed by the backward pass and optimizer step of the train loop.
TestLoss_Backprops == BatchOp("e_loss", "e_iter", "step") /\ params' = params + 1

\* The batch loss and accuracy, added to the sums; the batch is released
\* (lines 204-211).
TestLoss == BatchOp("e_loss", "e_iter", "loss") /\ params' = params

\* The loader is exhausted: the means, the policy and the return to train()
\* (lines 213-227, 257).
TestEnd(loss, acc) ==
    /\ pc = "e_iter"
    /\ batch = TestBatches
    /\ LET p == Policy(PATIENCE, epoch, test_loss_previous, loss, acc,
                       patience_curr, patience_ended)
       IN  /\ patience_curr' = p[1]
           /\ patience_ended' = p[2]
           /\ checkpoints' = checkpoints \o p[3]
    /\ test_loss' = loss
    /\ test_acc' = acc
    /\ pc' = "record"
    /\ UNCHANGED <<driverVars, train_loss, train_acc, test_loss_previous,
                   trained, evaluated, passVars, stop_msgs, sessionVars, prior_writes>>

\* Where a collaborator can raise: the loaders' iteration, the model's forward
\* pass, the criterion and metric, and the optimizer (lines 162-176, 197-207).
RaisingPcs ==
    {"t_iter", "t_forward", "t_loss", "t_zero", "t_backward", "t_opt",
     "e_iter", "e_forward", "e_loss"}

\* Raise caught around the epoch: the loop goes on with the next epoch.
Raise_Swallowed ==
    /\ pc \in RaisingPcs
    /\ pc' = "for"
    /\ ops' = Append(ops, <<"raise", mode>>)
    /\ UNCHANGED <<driverVars, policyVars, metricVars, trained, evaluated,
                   mode, params, batch, stop_msgs, sessionVars, prior_writes>>

\* A collaborator raises during a batch (logged as "raise"). Neither _train_step, _test_step nor
\* train() has a try block, so the exception leaves train() (lines 230-264).
Raise ==
    /\ pc \in RaisingPcs
    /\ pc' = "raised"
    /\ ops' = Append(ops, <<"raise", mode>>)
    /\ UNCHANGED <<driverVars, policyVars, metricVars, trained, evaluated,
                   mode, params, batch, stop_msgs, sessionVars, prior_writes>>

\* The configurations explored batch by batch.
StepConfigs == {c \in Configs : c[1] <= StepEpochs}

NextSteps ==
    \/ \E c \in StepConfigs : Train(c[1], c[2], c[3])
    \/ ForNext
    \/ EarlyStop
    \/ ForExhausted
    \/ TrainBegin
    \/ TrainNextBatch
    \/ TrainForward
    \/ TrainLoss
    \/ TrainZeroGrad
    \/ TrainBackward
    \/ TrainOptStep
    \/ \E m \in TrainMetrics : TrainEnd(m)
    \/ TestBegin
    \/ TestNextBatch
    \/ TestForward
    \/ TestLoss
    \/ \E loss \in TestLosses, acc \in TestAccs : TestEnd(loss, acc)
    \/ SkipTest
    \/ Record
    \/ Return
    \/ Raise

SpecSteps == Init /\ [][NextSteps]_vars

\* ------------------------------------------- setup and repeated train() calls
\* The selectors load_model (lines 86-97) and init_optim (lines 146-149) accept.
Architectures == {"efficientnet_b0", "alexnet", "vgg11", "vgg11_bn"}
OptimizerKinds == {"Adam", "SGD"}
\* The selectors tried: a supported and an unsupported one each.
ModelSelectors == {"efficientnet_b0", "resnet18"}
OptimizerSelectors == {"SGD", "RMSprop"}

runVars ==
    <<pc, driverVars, policyVars, metricVars, trained, evaluated, ops, batch,
      stop_msgs, calls, prior_writes>>

\* LoadModel falling back to the default architecture on an unknown selector.
LoadModel_FallsBack(sel) ==
    /\ pc = "idle"
    /\ model' = IF sel \in Architectures THEN sel ELSE "efficientnet_b0"
    /\ mode' = "train"
    /\ params' = 0
    /\ last_setup' = <<"load_model", sel, "ok">>
    /\ UNCHANGED <<runVars, optimizer>>

\* load_model(num_classes, model=sel) (lines 86-113), called while the caller
\* has control: a supported selector installs a fresh model, in
\* training mode; any other raises RuntimeError before self.model is assigned.
LoadModel(sel) ==
    /\ pc = "idle"
    /\ IF sel \in Architectures
       THEN /\ model' = sel
            /\ mode' = "train"
            /\ params' = 0
            /\ last_setup' = <<"load_model", sel, "ok">>
       ELSE /\ last_setup' = <<"load_model", sel, "RuntimeError">>
            /\ UNCHANGED <<model, mode, params>>
    /\ UNCHANGED <<runVars, optimizer>>

\* init_optim(optimizer=sel) (lines 144-151), called while the caller has
\* control: a supported selector reads self.model.parameters(), which
\* raises AttributeError when no model is loaded; any other selector raises
\* RuntimeError; self.optimizer is assigned only on success.
InitOptim(sel) ==
    /\ pc = "idle"
    /\ IF sel \in OptimizerKinds
       THEN IF model = Missing
            THEN /\ last_setup' = <<"init_optim", sel, "AttributeError">>
                 /\ UNCHANGED optimizer
            ELSE /\ last_setup' = <<"init_optim", sel, "ok">>
                 /\ optimizer' = sel
       ELSE /\ last_setup' = <<"init_optim", sel, "RuntimeError">>
            /\ UNCHANGED optimizer
    /\ UNCHANGED <<runVars, model, mode, params>>

\* _train_step on a session without model or optimizer: AttributeError at
\* line 161 (no self.model) or in the first batch, before any optimizer step
\* (no self.criterion / self.optimizer, lines 169-174).
TrainStepUnready ==
    /\ pc = "train_step"
    /\ ~Ready
    /\ mode' = IF model # Missing THEN "train" ELSE mode
    /\ ops' = << <<"raise", mode'>> >>
    /\ trained' = Append(trained, epoch)
    /\ pc' = "raised"
    /\ UNCHANGED <<driverVars, policyVars, metricVars, evaluated, params,
                   batch, stop_msgs, sessionVars, prior_writes>>

\* train() has returned or raised: the caller has control again and may call
\* train() once more on the same session.
CallEnds ==
    /\ pc \in {"done", "raised"}
    /\ calls + 1 < MaxCalls
    /\ calls' = calls + 1
    /\ pc' = "idle"
    /\ UNCHANGED <<driverVars, policyVars, metricVars, trained, evaluated,
                   passVars, stop_msgs, model, optimizer, last_setup,
                   prior_writes>>

\* The configurations and test losses explored over repeated calls.
SessionConfigs == {<<4, 1, <<2>> >>, <<3, 1, <<1>> >>}
SessionLosses == {8, 9}

NextSession ==
    \/ \E sel \in ModelSelectors : LoadModel(sel)
    \/ \E sel \in OptimizerSelectors : InitOptim(sel)
    \/ \E c \in SessionConfigs : Train(c[1], c[2], c[3])
    \/ ForNext
    \/ EarlyStop
    \/ ForExhausted
    \/ \E m \in TrainMetrics : TrainStep(m)
    \/ TrainStepUnready
    \/ \E loss \in SessionLosses, acc \in TestAccs : TestStep(loss, acc)
    \/ Record
    \/ Return
    \/ CallEnds

SpecSession == Constructed /\ [][NextSession]_vars

\* ------------------------------------------------------------ properties
\* Helpers of the properties below.
Running == pc # "idle"
Stopped == Running /\ patience_ended
EvalHappens == pc = "cadence" /\ pc' = "record"
StoppingEnabled == PATIENCE # None
Last(s) == s[Len(s)]
Iota(n) == [i \in 1..n |-> i - 1]
EpochsOf(h) == [i \in 1..Len(h) |-> h[i][1]]
TestLossesOf(h) == [i \in 1..Len(h) |-> h[i][4]]
IsPrefix(s, t) == Len(s) <= Len(t) /\ \A i \in 1..Len(s) : s[i] = t[i]
\* The epochs below n on which the cadence schedules an evaluation, in order.
RECURSIVE EvalEpochsBelow(_, _)
EvalEpochsBelow(n, T) ==
    IF n = 0 THEN <<>>
    ELSE IF (n - 1) % T = 0
         THEN Append(EvalEpochsBelow(n - 1, T), n - 1)
         ELSE EvalEpochsBelow(n - 1, T)

\* C1 (as stated): once patience_ended is true, no further train step, eval
\* step, history append or checkpoint write happens in that run.
C1_NothingAfterStop ==
    [][Stopped =>
          /\ trained' = trained
          /\ evaluated' = evaluated
          /\ results' = results
          /\ checkpoints' = checkpoints]_vars

\* C1 (amended): once patience_ended is true, no further train step, eval
\* step or checkpoint write happens in that run, and the only history append
\* still made is the record of the epoch whose evaluation set the flag.
C1_OnlyStoppingRecordAfterStop ==
    [][Stopped =>
          /\ trained' = trained
          /\ evaluated' = evaluated
          /\ checkpoints' = checkpoints
          /\ results' # results =>
                /\ Len(results) = Len(evaluated) - 1
                /\ Len(results') = Len(evaluated)
                /\ Last(results')[1] = Last(evaluated)
                /\ IsPrefix(results, results')]_vars

\* C1 witness: a run that returned after the flag was set with epochs left.
C1_Witness ==
    /\ pc = "done"
    /\ patience_ended
    /\ Len(trained) < EPOCHS
    /\ Len(history) = Len(evaluated)

\* The losses of the scenario of C2, in tenths.
C2_ScenarioLosses == <<9, 8, 10, 11, 12>>

\* C2: when the counter reaches the limit in the evaluation of epoch e, epoch
\* e completes and its record is appended, and no later epoch starts its
\* train step; with EPOCHS=5, TEST_EVERY=1, PATIENCE=2 and test losses
\* [0.9, 0.8, 1.0, 1.1, 1.2] the counter is 2 after epoch 3, epoch 4 never
\* runs and the returned history has 4 rows (epochs 0..3).
C2_StopTakesEffectNextEpoch ==
    /\ Stopped =>
          /\ pc \in {"record", "for", "return", "done"}
          /\ evaluated # <<>>
          /\ trained = Iota(Last(evaluated) + 1)
          /\ pc # "record" => /\ results # <<>>
                              /\ Last(results)[1] = Last(evaluated)
          /\ pc = "done" => /\ history # <<>>
                            /\ Last(history)[1] = Last(evaluated)
                            /\ epoch \in {Last(evaluated), Last(evaluated) + 1}
    /\ ( /\ pc = "done"
         /\ EPOCHS = 5 /\ TEST_EVERY = 1 /\ PATIENCE = <<2>>
         /\ IsPrefix(TestLossesOf(history), C2_ScenarioLosses) )
       => /\ Len(history) = 4
          /\ EpochsOf(history) = <<0, 1, 2, 3>>
          /\ trained = <<0, 1, 2, 3>>
          /\ patience_curr = 2
          /\ patience_ended

\* C2 witness: the scenario's run has returned.
C2_Witness ==
    /\ pc = "done"
    /\ EPOCHS = 5 /\ TEST_EVERY = 1 /\ PATIENCE = <<2>>
    /\ TestLossesOf(history) = <<9, 8, 10, 11>>

\* C3: the returned history holds exactly one record per executed epoch e
\* with e mod TEST_EVERY = 0, in order, and none for any other epoch; while
\* the run is under way a record exists exactly for the epochs whose eval
\* step ran (the one being recorded excepted).
C3_HistoryIsEvalEpochs ==
    /\ pc = "done" =>
          /\ EpochsOf(history) = EvalEpochsBelow(Len(trained), TEST_EVERY)
          /\ EpochsOf(history) = evaluated
    /\ (Running /\ pc # "record") => EpochsOf(results) = evaluated
    /\ pc = "record" => /\ evaluated # <<>>
                        /\ EpochsOf(results) = SubSeq(evaluated, 1, Len(evaluated) - 1)

\* C3 witness: a returned history that skipped epochs and was cut short.
C3_Witness ==
    /\ pc = "done"
    /\ TEST_EVERY = 2
    /\ patience_ended
    /\ Len(trained) = 3
    /\ EPOCHS = 6
    /\ EpochsOf(history) = <<0, 2>>

\* C4: every epoch that runs has exactly one train step, and its eval step
\* runs iff epoch mod TEST_EVERY = 0, after the train step; with
\* TEST_EVERY=2, EPOCHS=6 and no early stop the evaluations are those of
\* epochs 0, 2 and 4 and the history has 3 rows.
C4_TrainOnceEvalOnCadence ==
    /\ pc = "train_step" =>
          /\ trained = Iota(epoch)
          /\ evaluated = EvalEpochsBelow(epoch, TEST_EVERY)
    /\ pc = "cadence" =>
          /\ trained = Iota(epoch + 1)
          /\ evaluated = EvalEpochsBelow(epoch, TEST_EVERY)
    /\ pc = "record" =>
          /\ trained = Iota(epoch + 1)
          /\ evaluated = EvalEpochsBelow(epoch + 1, TEST_EVERY)
          /\ Last(evaluated) = epoch
    /\ pc = "for" =>
          /\ trained = Iota(it)
          /\ evaluated = EvalEpochsBelow(it, TEST_EVERY)
    /\ pc \in {"return", "done"} =>
          evaluated = EvalEpochsBelow(Len(trained), TEST_EVERY)
    /\ (pc = "done" /\ TEST_EVERY = 2 /\ EPOCHS = 6 /\ Len(trained) = 6) =>
          /\ evaluated = <<0, 2, 4>>
          /\ Len(history) = 3

\* C4 witness: the scenario's run has returned with all six epochs run.
C4_Witness ==
    /\ pc = "done"
    /\ TEST_EVERY = 2 /\ EPOCHS = 6
    /\ trained = <<0, 1, 2, 3, 4, 5>>
    /\ EpochsOf(history) = <<0, 2, 4>>

\* C5: with early stopping enabled, an evaluation whose test loss equals that
\* of the evaluation before it changes neither the patience counter nor the
\* stopped flag and writes no checkpoint.
C5_TieIsNoOp ==
    [][(EvalHappens /\ StoppingEnabled /\ evaluated # <<>> /\ test_loss' = test_loss)
          => UNCHANGED <<patience_curr, patience_ended, checkpoints>>]_vars

\* C5 witness: a tie has just been evaluated while the counter was running.
C5_Witness ==
    /\ pc = "record"
    /\ StoppingEnabled
    /\ Len(evaluated) >= 2
    /\ test_loss = test_loss_previous
    /\ patience_curr = 1

\* C6: the evaluation of epoch 0 never increments the patience counter and
\* never writes a checkpoint, whatever its loss (values below the sentinel 0
\* included).
C6_Epoch0NeitherCountsNorCheckpoints ==
    (pc = "record" /\ epoch = 0) =>
        /\ patience_curr = 0
        /\ checkpoints = <<>>

\* C7: with early stopping enabled, an evaluation writes a checkpoint iff its
\* test loss is strictly below the previous test loss it is compared with
\* (test_loss_previous: the loss of the evaluation before it, the sentinel 0
\* at epoch 0); a tie or a regression writes none, and a strict improvement
\* after epoch 0 writes exactly one, named by its epoch, test loss and test
\* accuracy. No other step writes a checkpoint.
C7_CheckpointIffStrictImprovement ==
    [][ /\ (EvalHappens /\ StoppingEnabled) =>
              IF test_loss' < test_loss
              THEN checkpoints' =
                      Append(checkpoints, <<epoch, test_loss', test_acc'>>)
              ELSE checkpoints' = checkpoints
        /\ (Running /\ ~EvalHappens) => checkpoints' = checkpoints ]_vars

\* C7 witness: an improvement after epoch 0 has just written its checkpoint.
C7_Witness ==
    /\ pc = "record"
    /\ StoppingEnabled
    /\ epoch # 0
    /\ test_loss < test_loss_previous
    /\ Len(checkpoints) = 1
    /\ Last(checkpoints) = <<epoch, test_loss, test_acc>>

\* C8: every evaluation whose test loss is strictly below the previous one
\* leaves the patience counter at 0, and the counter is never below 0.
C8_ResetOnImprovementNeverNegative ==
    Running =>
        /\ patience_curr >= 0
        /\ (pc = "record" /\ test_loss < test_loss_previous) => patience_curr = 0

\* C8 witness: an improvement evaluated right after a regression that had
\* raised the counter.
C8_Witness ==
    /\ pc = "record"
    /\ StoppingEnabled
    /\ Len(results) >= 2
    /\ Last(results)[4] > results[Len(results) - 1][4]
    /\ test_loss < test_loss_previous
    /\ patience_curr = 0
    /\ ~patience_ended

\* C9 (as stated): with early stopping enabled, every evaluation at an epoch
\* other than 0 whose test loss is greater than or equal to the previous one
\* increments the patience counter by exactly 1.
C9_IncrementOnGreaterOrEqual ==
    [][(EvalHappens /\ StoppingEnabled /\ epoch # 0 /\ test_loss' >= test_loss)
          => patience_curr' = patience_curr + 1]_vars

\* C9 (amended): with early stopping enabled, every evaluation at an epoch
\* other than 0 whose test loss is strictly greater than the previous one
\* increments the patience counter by exactly 1.
C9_IncrementOnStrictlyGreater ==
    [][(EvalHappens /\ StoppingEnabled /\ epoch # 0 /\ test_loss' > test_loss)
          => patience_curr' = patience_curr + 1]_vars

\* C9 witness: a second regression in a row has just been counted.
C9_Witness ==
    /\ pc = "record"
    /\ StoppingEnabled
    /\ epoch # 0
    /\ test_loss > test_loss_previous
    /\ patience_curr = 2

\* C10: when a patience limit is set, in every state of train() the stopped
\* flag is true iff the patience counter equals the limit (limit 0 included).
C10_StoppedIffCounterAtLimit ==
    (Running /\ StoppingEnabled) =>
        (patience_ended <=> patience_curr = Limit(PATIENCE))

\* The same for the limits of at least 1, which the code does satisfy.
StoppedIffCounterAtPositiveLimit ==
    (Running /\ StoppingEnabled /\ Limit(PATIENCE) >= 1) =>
        (patience_ended <=> patience_curr = Limit(PATIENCE))

\* How a returned run ended: the break of line 251 was taken, or range(EPOCHS)
\* ran out.
RunState ==
    IF pc # "done" THEN "RUNNING"
    ELSE IF it > Len(trained) THEN "STOPPED_EARLY" ELSE "COMPLETED"

\* C11: with PATIENCE=None the policy is skipped for every evaluation: the
\* counter stays 0, the flag stays false, no checkpoint is written whatever
\* the losses, and all EPOCHS epochs run to COMPLETED.
C11_DisabledSkipsPolicy ==
    (Running /\ PATIENCE = None) =>
        /\ patience_curr = 0
        /\ patience_ended = FALSE
        /\ checkpoints = <<>>
        /\ stop_msgs = 0
        /\ pc = "done" =>
              /\ RunState = "COMPLETED"
              /\ trained = Iota(EPOCHS)
              /\ EpochsOf(history) = EvalEpochsBelow(EPOCHS, TEST_EVERY)

\* C11 witness: a run without a limit returned after an improvement and two
\* regressions in a row.
C11_Witness ==
    /\ pc = "done"
    /\ PATIENCE = None
    /\ EPOCHS = 4
    /\ TestLossesOf(history) = <<9, 8, 10, 11>>

\* C13 (as stated): every run in which the flag becomes true, the last
\* configured epoch included, prints the early-stopping message before it
\* returns and ends STOPPED_EARLY.
C13_MessageWheneverFlagSet ==
    (pc = "done" /\ patience_ended) =>
        /\ stop_msgs = 1
        /\ RunState = "STOPPED_EARLY"

\* C13 (amended): a run in which the flag becomes true while a further epoch
\* remains prints the early-stopping message once before it returns and ends
\* STOPPED_EARLY; when the flag is set by the evaluation of the last
\* configured epoch no message is printed and the run ends COMPLETED. No
\* other run prints the message.
C13_MessageIffEpochRemains ==
    /\ stop_msgs \in {0, 1}
    /\ pc \in {"return", "done"} =>
          LET triggered == patience_ended /\ Last(evaluated) + 1 < EPOCHS
          IN  /\ stop_msgs = 1 <=> triggered
              /\ pc = "done" =>
                    RunState = IF triggered THEN "STOPPED_EARLY" ELSE "COMPLETED"
    /\ (Running /\ pc \notin {"return", "done"}) => stop_msgs = 0

\* C13 witness: a run returned after the break, the message printed.
C13_Witness ==
    /\ pc = "done"
    /\ patience_ended
    /\ stop_msgs = 1
    /\ Len(trained) < EPOCHS

\* The loss an evaluation is compared with, given the rows recorded so far.
ReferenceLoss(h) == IF h = <<>> THEN 0 ELSE Last(h)[4]

\* C19: every evaluation is compared with the test loss of the latest
\* evaluation that ran (the last history row), or the sentinel 0 before any
\* has run; epochs without evaluation do not change it, and it is not the
\* best loss so far: the checkpoint of an evaluation is written iff its loss
\* is below that reference.
C19_ReferenceIsLatestEvaluation ==
    /\ pc \in {"for", "train_step", "cadence"} => test_loss = ReferenceLoss(results)
    /\ pc = "record" =>
          /\ test_loss_previous = ReferenceLoss(results)
          /\ StoppingEnabled =>
                ( (checkpoints # <<>> /\ Last(checkpoints)[1] = epoch)
                  <=> test_loss < ReferenceLoss(results) )

\* C19 witness: with a cadence above 1, a checkpoint written for a loss
\* higher than an earlier checkpointed loss.
C19_Witness ==
    /\ pc = "record"
    /\ TEST_EVERY = 2
    /\ Len(checkpoints) = 2
    /\ checkpoints[1][2] < checkpoints[2][2]
    /\ checkpoints[1][2] = BestLoss(results)
    /\ checkpoints[2][1] = epoch

\* Helpers of the properties of the passes.
TrainPcs == {"t_iter", "t_forward", "t_loss", "t_zero", "t_backward", "t_opt"}
EvalPcs == {"e_iter", "e_forward", "e_loss"}
KindsOf(o) == [i \in 1..Len(o) |-> o[i][1]]
RECURSIVE Repeat(_, _)
Repeat(q, n) == IF n = 0 THEN <<>> ELSE Repeat(q, n - 1) \o q
Only(o, kinds) == SelectSeq(o, LAMBDA x : x \in kinds)
Raised == \E i \in 1..Len(ops) : ops[i][1] = "raise"

\* C12: no step of an eval pass changes the parameters, an eval pass holds no
\* gradient clear, backward pass or optimizer step, so the parameters after
\* it are those before it; the parameters change only in the optimizer step
\* of the train pass.
C12_EvalLeavesParameters ==
    [][ /\ (pc \in EvalPcs \/ pc' \in EvalPcs \/ pc' = "record") =>
              /\ params' = params
              /\ \A i \in 1..Len(ops') :
                    ops'[i][1] \notin {"zero_grad", "backward", "step"}
        /\ params' # params =>
              /\ pc = "t_opt"
              /\ params' = params + 1
              /\ Last(ops') = <<"step", "train">> ]_vars

\* C12 witness: the eval pass of the second epoch is over, the parameters
\* being those the two train passes left.
C12_Witness ==
    /\ pc = "record"
    /\ epoch = 1
    /\ KindsOf(ops) = Repeat(<<"forward", "loss">>, TestBatches)
    /\ params = 2 * TrainBatches

\* C15: an exception raised during a batch of a train or eval pass leaves
\* train(): from then on nothing runs or changes (no batch, epoch,
\* evaluation, checkpoint write or history append) and no history is
\* returned or stored.
C15_FailureAbortsRun ==
    /\ [](Raised => (pc = "raised" /\ history = Unset))
    /\ [][pc = "raised" => UNCHANGED vars]_vars

\* C15 witness: a run that failed in the eval pass of its second evaluation,
\* one row recorded.
C15_Witness ==
    /\ pc = "raised"
    /\ Raised
    /\ Len(evaluated) = 2
    /\ Len(results) = 1
    /\ Len(trained) = 2
    /\ mode = "eval"

\* C17 (as stated): a completed train pass has, for each batch in turn, one
\* gradient clear, the loss, one backward pass and one optimizer step, in the
\* order zero_grad, loss, backward, step.
C17_ZeroGradBeforeLoss ==
    pc = "cadence" =>
        Only(KindsOf(ops), {"zero_grad", "loss", "backward", "step"})
          = Repeat(<<"zero_grad", "loss", "backward", "step">>, TrainBatches)

\* C17 (amended): a train pass goes once over the batches of the loader, in
\* order, and for each batch in turn does the forward pass, the loss, one
\* gradient clear, one backward pass and one optimizer step, in the order
\* forward, loss, zero_grad, backward, step; nothing is put off to the end of
\* the pass, so the optimizer steps of an epoch are as many as the batches.
C17_PerBatchOrder ==
    LET expected ==
            Repeat(<<"forward", "loss", "zero_grad", "backward", "step">>,
                   TrainBatches)
    IN  /\ (pc \in TrainPcs /\ ~Raised) =>
              /\ IsPrefix(KindsOf(ops), expected)
              /\ Len(ops) = 5 * (batch - 1) + CASE pc = "t_iter" -> 5
                                                [] pc = "t_forward" -> 0
                                                [] pc = "t_loss" -> 1
                                                [] pc = "t_zero" -> 2
                                                [] pc = "t_backward" -> 3
                                                [] pc = "t_opt" -> 4
              /\ params = TrainBatches * (Len(trained) - 1)
                            + Len(Only(KindsOf(ops), {"step"}))
        /\ pc = "cadence" =>
              /\ KindsOf(ops) = expected
              /\ batch = TrainBatches
              /\ params = TrainBatches * Len(trained)

\* C17 witness: the train pass of the second epoch is complete.
C17_Witness ==
    /\ pc = "cadence"
    /\ epoch = 1
    /\ Len(ops) = 5 * TrainBatches
    /\ params = 2 * TrainBatches

\* C18: every forward pass of a train pass runs with the model in training
\* mode and every forward pass of an eval pass with the model in evaluation
\* mode; a train pass that follows an evaluation switches the mode back
\* before its first batch.
C18_ModeDiscipline ==
    /\ pc \in TrainPcs => mode = "train"
    /\ pc \in EvalPcs => mode = "eval"
    /\ pc \in TrainPcs \cup {"cadence"} =>
          \A i \in 1..Len(ops) : ops[i][1] = "forward" => ops[i][2] = "train"
    /\ pc \in EvalPcs \cup {"record"} =>
          \A i \in 1..Len(ops) : ops[i][1] = "forward" => ops[i][2] = "eval"

\* C18 witness: the first forward pass of a train pass that follows an
\* evaluation epoch.
C18_Witness ==
    /\ pc = "t_loss"
    /\ epoch = 1
    /\ evaluated = <<0>>
    /\ ops = << <<"forward", "train">> >>

\* C14 (as stated): over any sequence of operations on a session, repeated
\* train() calls included, no two checkpoint writes target the same path.
C14_NoPathWrittenTwice ==
    \A i, j \in 1..Len(checkpoints) : i < j => checkpoints[i] # checkpoints[j]

\* Within one train() call the epoch in the name keeps the paths apart, and
\* no step removes or rewrites an earlier entry of the write log.
NoPathWrittenTwiceInOneCall ==
    /\ [](Running =>
            /\ prior_writes <= Len(checkpoints)
            /\ \A i, j \in (prior_writes + 1)..Len(checkpoints) :
                  i < j => checkpoints[i] # checkpoints[j])
    /\ [][IsPrefix(checkpoints, checkpoints')]_vars

\* C16: an unsupported selector passed to load_model or init_optim ends the
\* call with an error (RuntimeError) and installs neither model nor
\* optimizer, and the failing call runs no train or eval step.
C16_UnsupportedSelectorFailsFast ==
    /\ [](last_setup # Unset =>
            /\ (last_setup[1] = "load_model" /\ last_setup[2] \notin Architectures)
                  => (last_setup[3] = "RuntimeError" /\ model # last_setup[2])
            /\ (last_setup[1] = "init_optim" /\ last_setup[2] \notin OptimizerKinds)
                  => (last_setup[3] = "RuntimeError" /\ optimizer # last_setup[2]))
    /\ [][ (pc = "idle" /\ pc' = "idle" /\ last_setup' # Unset
              /\ last_setup'[3] = "RuntimeError")
           => UNCHANGED <<model, optimizer, mode, params, trained, evaluated,
                          ops, checkpoints, results, history>> ]_vars
    /\ []((pc = "idle" /\ calls = 0) => (trained = <<>> /\ evaluated = <<>>))

\* C16 witness: both setup calls were rejected on a fresh session and nothing
\* is installed.
C16_Witness ==
    /\ pc = "idle"
    /\ last_setup = <<"init_optim", "RMSprop", "RuntimeError">>
    /\ model = Missing
    /\ optimizer = Missing
    /\ trained = <<>>

\* C20: every train() call starts from a fresh policy state whatever the
\* calls before it did (counter 0, flag false, sentinel 0, epoch index 0,
\* empty results), so after a call that stopped early the next call runs
\* its first epoch, and the history returned holds only the rows of the
\* latest call.
C20_EachCallStartsFresh ==
    /\ [][ (pc = "idle" /\ pc' = "for") =>
              /\ patience_curr' = 0
              /\ patience_ended' = FALSE
              /\ test_loss' = 0
              /\ it' = 0
              /\ results' = <<>> ]_vars
    /\ []((pc = "for" /\ it = 0) => (patience_ended = FALSE /\ results = <<>>))
    /\ []((pc = "train_step" /\ it = 1) => epoch = 0)
    /\ [](pc = "done" =>
            /\ EpochsOf(history) = evaluated
            /\ evaluated = Iota(Len(evaluated))
            /\ Len(history) <= EPOCHS)

\* C20 witness: the call after one that stopped early has run the train step
\* of its epoch 0.
C20_Witness ==
    /\ calls = 1
    /\ stop_msgs = 1
    /\ pc = "cadence"
    /\ epoch = 0
    /\ trained = <<0>>
    /\ history # Unset
    /\ Len(history) >= 2

====
